---- MODULE Spec2Model ----
(***************************************************************************)
(* Model of the Tecplot binary decoder of                                  *)
(* pyNastran/converters/tecplot/tecplot_binary.py.                         *)
(*                                                                         *)
(* A file is a sequence of 4-byte little-endian words together with its    *)
(* length in bytes (a truncated file ends inside a word).  A word is kept  *)
(* as the signed 32-bit integer that unpack('<i') returns; a float32 field *)
(* is kept as its bit pattern, so 299.0 is the word 1133871104.            *)
(*                                                                         *)
(* One action models one read operation of the decoder together with the   *)
(* bookkeeping and checks the code performs up to the following read.      *)
(***************************************************************************)
EXTENDS Integers, Sequences, FiniteSets, TLC

VARIABLES
    f,        \* self.f: the open file, [words, len]
    pos,      \* file_obj.tell(): the offset of the open file in bytes
    n,        \* self.n: the tracked counter of the reader object
    zn,       \* the local counter n of _read_binary_zones
    zones,    \* self.zones: the zones handed over and appended
    pc,       \* the position of read_tecplot_binary
    status,   \* "none", "running", "ok", "error": outcome of the call
    err,      \* the exception type an aborted call raised
    excl,     \* set_zones_to_exclude of the call
    calls,    \* number of calls made on the reader object
    hdr,      \* locals of _read_binary_header and _read_binary_zones
    zd,       \* locals of _read_binary_zone and of the zone loop
    handed,   \* zone indices handed to the collaborator by this call
    fd,       \* how the file of this call was written (not read by the decoder)
    peer      \* a second reader object and its decode, while the other one runs

vars == <<f, pos, n, zn, zones, pc, status, err, excl, calls, hdr, zd, handed, fd, peer>>

----------------------------------------------------------------------------
(* Bounds of the model *)

MaxZones == 2
MaxNodes == 2
MaxElems == 1
MaxTitle == 101
MaxTrail == 5
MaxCalls == 2
MaxZoneType == 8

(* Constants of the program *)

MAGIC_LO == 1146364195
MAGIC_HI == 842084694
ZONE_MARKER == 1133871104
EOHMARKER == 1135771648
BUFFER_INTS == 100
GEOM_WORDS == 17
MAX_CHR == 1114111
ZONE_CAP == 1000

NVARS_OK == {13, 22}

----------------------------------------------------------------------------
(* Sequence helpers *)

Min(a, b) == IF a < b THEN a ELSE b

RECURSIVE Flatten(_)
Flatten(ss) ==
    IF Len(ss) = 0 THEN <<>>
    ELSE IF Len(ss) = 1 THEN ss[1]
    ELSE LET h == Len(ss) \div 2
         IN  Flatten(SubSeq(ss, 1, h)) \o Flatten(SubSeq(ss, h + 1, Len(ss)))

Rep(k, w) == [i \in 1..k |-> w]

----------------------------------------------------------------------------
(* The writer side: the layout of a file as the reader's comments document *)
(* it.  p is the parameter record of a file.                               *)

\* a string is written as its character codes followed by a zero word
StrWords(s) == s \o <<0>>

TitleOf(p) == [i \in 1..p.tl |-> 84]

VarName(i) == <<64 + i>>

VarNamesOf(p) == [i \in 1..p.nv |-> VarName(i)]

ZoneName(k) == <<90, 48 + k>>

\* the value of variable i (0-based) at node j (0-based) of zone k
NodalValue(k, i, j) == 1000 * (k + 1) + 30 * i + j

\* bytes per value of a format code
FmtWidth(fmt) == IF fmt \in {1, -1} THEN 4 ELSE 8

\* a value as the words of its encoding; 8-byte values carry a high word
ValueWords(fmt, v) == IF FmtWidth(fmt) = 4 THEN <<v>> ELSE <<v, 1>>

\* entry c (0-based) of element e (0-based) in a zone of nn nodes
QuadEntry(nn, e, c) == (e + c) % nn

ZoneRecWords(p, k) ==
    <<ZONE_MARKER>> \o StrWords(ZoneName(k))
    \o <<-1, -1, 0, 0, -1, 3, 0, 0>>
    \o <<0, p.nn>>
    \o <<p.ne, 0, 0, 0>>
    \o <<0>>

SectionWords(p) ==
    IF p.geom THEN <<ZONE_MARKER>> \o Rep(GEOM_WORDS, 0) ELSE <<EOHMARKER>>

NodalWords(p, k) ==
    Flatten([q \in 1..(p.nv * p.nn) |->
        ValueWords(p.fmt, NodalValue(k, (q - 1) \div p.nn, (q - 1) % p.nn))])

QuadWords(p) ==
    [q \in 1..(4 * p.ne) |-> QuadEntry(p.nn, (q - 1) \div 4, (q - 1) % 4)]

ZoneDataWords(p, k) ==
    <<ZONE_MARKER>> \o Rep(p.nv, p.fmt)
    \o (IF p.passive = 1 THEN <<1>> \o Rep(p.nv, 0) ELSE <<0>>)
    \o <<0, -1>>
    \o Rep(4 * p.nv, 7)
    \o NodalWords(p, k)
    \o QuadWords(p)

\* the header up to the zone records
PrefixWords(p) ==
    <<MAGIC_LO, MAGIC_HI, 1, 0>> \o StrWords(TitleOf(p)) \o <<p.nv>>
    \o Flatten([i \in 1..p.nv |-> StrWords(VarName(i))])

HeaderWords(p) ==
    PrefixWords(p)
    \o Flatten([k \in 1..p.nz |-> ZoneRecWords(p, k - 1)])
    \o SectionWords(p)

FileWords(p) ==
    HeaderWords(p) \o Flatten([k \in 1..p.nz |-> ZoneDataWords(p, k - 1)])

\* the offset in bytes at which the data block of zone k (0-based) ends
ZoneDataEnd(p, k) ==
    4 * (Len(HeaderWords(p)) + (k + 1) * Len(ZoneDataWords(p, 0)))

----------------------------------------------------------------------------
(* The inputs of a call: a file and the caller's zones_to_exclude.         *)
(* mut says how the written file was damaged before it was handed over.    *)

NoMut == [kind |-> "none", at |-> 0, val |-> 0]

BaseP == [nv |-> 13, tl |-> 1, nz |-> 1, fmt |-> 1, passive |-> 0,
          geom |-> FALSE, nn |-> 1, ne |-> 1]

ApplyMut(w, m) ==
    CASE m.kind = "set"   -> [words |-> [w EXCEPT ![m.at] = m.val], len |-> 4 * Len(w)]
      [] m.kind = "trunc" -> [words |-> SubSeq(w, 1, (m.at + 3) \div 4), len |-> m.at]
      [] m.kind = "trail" -> [words |-> w \o Rep((m.at + 3) \div 4, 9),
                              len |-> 4 * Len(w) + m.at]
      [] OTHER            -> [words |-> w, len |-> 4 * Len(w)]

FileOf(d) == ApplyMut(FileWords(d.p), d.mut)

\* a file as its writer meant it: undamaged, with no section the format
\* makes optional left in a state the writer did not intend
WellFormed(d) == d.mut.kind = "none" /\ d.p.fmt \in {1, 2, 3}

NoneArg == [none |-> TRUE, list |-> <<>>]
ListArg(l) == [none |-> FALSE, list |-> l]

\* every strictly increasing list of zone indices below k
IncLists(k) ==
    {l \in UNION {[1..m -> 0..(k - 1)] : m \in 0..k} :
        \A i \in 1..(Len(l) - 1) : l[i] < l[i + 1]}

\* one zone, every layout of its data block
LayoutInputs ==
    {[p |-> [BaseP EXCEPT !.nv = nv, !.fmt = fmt, !.passive = pa, !.nn = nn, !.ne = ne],
      mut |-> NoMut, ex |-> NoneArg] :
        nv \in NVARS_OK, fmt \in {1, 2, 3}, pa \in {0, 1},
        nn \in 1..MaxNodes, ne \in 0..MaxElems}

\* one zone whose values are written as 4-byte integers under format code -1
FakedInputs ==
    {[p |-> [BaseP EXCEPT !.fmt = -1, !.nn = nn], mut |-> NoMut, ex |-> NoneArg] :
        nn \in 1..MaxNodes}

\* one zone with passive-variable flags, one of the flags set
PassiveP == [BaseP EXCEPT !.passive = 1]

PassiveInputs ==
    {[p |-> PassiveP, mut |-> [kind |-> "set", at |-> a, val |-> v], ex |-> NoneArg] :
        a \in (Len(HeaderWords(PassiveP)) + PassiveP.nv + 3)
                ..(Len(HeaderWords(PassiveP)) + 2 * PassiveP.nv + 2),
        v \in {1, 7}}

\* zero to MaxZones zones, with or without a geometry record, every exclusion
ZoneInputs ==
    {[p |-> [BaseP EXCEPT !.nz = nz, !.geom = g], mut |-> NoMut, ex |-> x] :
        nz \in 0..MaxZones, g \in BOOLEAN,
        x \in {NoneArg} \cup {ListArg(l) : l \in IncLists(MaxZones)}}

\* every title length
TitleInputs ==
    {[p |-> [BaseP EXCEPT !.tl = tl], mut |-> NoMut, ex |-> NoneArg] : tl \in 0..MaxTitle}

TwoP == [BaseP EXCEPT !.nz = 2]

\* the words a damaged field is set to
BadWords == {-1, 0, 1, 2, 3, 4, 6, 7, 13, ZONE_MARKER, EOHMARKER}

\* one word of the two-zone file overwritten
SetInputs ==
    {[p |-> TwoP, mut |-> [kind |-> "set", at |-> a, val |-> v], ex |-> ListArg(<<>>)] :
        a \in 1..Len(FileWords(TwoP)), v \in BadWords}

TruncP == [BaseP EXCEPT !.ne = 2]

\* a one-zone file cut at every byte length
TruncInputs ==
    {[p |-> TruncP, mut |-> [kind |-> "trunc", at |-> a, val |-> 0], ex |-> NoneArg] :
        a \in 0..(4 * Len(FileWords(TruncP)) - 1)}

\* bytes left after the last zone
TrailInputs ==
    {[p |-> BaseP, mut |-> [kind |-> "trail", at |-> a, val |-> 0], ex |-> NoneArg] :
        a \in 1..MaxTrail}

Inputs ==
    LayoutInputs \cup FakedInputs \cup PassiveInputs \cup ZoneInputs \cup TitleInputs \cup SetInputs
    \cup TruncInputs \cup TrailInputs

\* the inputs of the calls made one after the other on one reader object
ReuseInputs ==
    {[p |-> BaseP, mut |-> NoMut, ex |-> NoneArg],
     [p |-> [BaseP EXCEPT !.passive = 1], mut |-> NoMut, ex |-> NoneArg],
     [p |-> TwoP, mut |-> NoMut, ex |-> ListArg(<<0>>)],
     [p |-> BaseP, mut |-> [kind |-> "set", at |-> 1, val |-> 0], ex |-> NoneArg],
     [p |-> BaseP, mut |-> [kind |-> "trunc", at |-> 10, val |-> 0], ex |-> NoneArg]}

\* a file with one zone record more than the cap of the descriptor loop,
\* cut after the data block of its first zone
CapP == [BaseP EXCEPT !.nz = ZONE_CAP + 1]

CapFile ==
    [p |-> CapP,
     mut |-> [kind |-> "trunc",
              at |-> 4 * (Len(HeaderWords(CapP)) + Len(ZoneDataWords(CapP, 0))),
              val |-> 0],
     ex |-> NoneArg]

CapInputs == {CapFile, [p |-> [BaseP EXCEPT !.passive = 1], mut |-> NoMut, ex |-> NoneArg]}

----------------------------------------------------------------------------
(* The reader object and the primitive reads *)

Hdr0 == [title |-> <<>>, nvars |-> 0, var_names |-> <<>>, izone |-> -1,
         ztuples |-> <<>>, zone_name |-> <<>>, zone_type |-> 0, data_packing |-> 0,
         raw_local |-> 0, nmisc |-> 0, nelement |-> 0, returned |-> FALSE]

Zd0 == [i |-> 0, start |-> 0, data_fmt |-> <<>>, has_passive |-> 0,
        zone_data |-> <<>>, quads |-> <<>>, steps |-> <<>>]

NoFile == [words |-> <<>>, len |-> 0]

\* no other reader object exists
NoPeer == [pc |-> "none"]

\* TecplotBinary.__init__
Init ==
    /\ f = NoFile
    /\ pos = 0
    /\ n = 0
    /\ zn = 0
    /\ zones = <<>>
    /\ pc = "idle"
    /\ status = "none"
    /\ err = "none"
    /\ excl = {}
    /\ calls = 0
    /\ hdr = Hdr0
    /\ zd = Zd0
    /\ handed = <<>>
    /\ fd = [p |-> BaseP, mut |-> NoMut, ex |-> NoneArg]
    /\ peer = NoPeer

\* bytes that file_obj.read(k) returns at the current offset; a negative
\* size reads up to the end of the file
Avail == IF pos >= f.len THEN 0 ELSE f.len - pos
Got(k) == IF k < 0 THEN Avail ELSE Min(k, Avail)

\* the i-th (1-based) 4-byte word at or after byte offset o
WordAt(o, i) == f.words[(o \div 4) + i]
WordsAt(o, k) == [i \in 1..k |-> WordAt(o, i)]

\* an exception leaves read_tecplot_binary
Raise(e) == pc' = "done" /\ status' = "error" /\ err' = e
Goto(l) == pc' = l /\ UNCHANGED <<status, err>>

zones_to_exclude_to_set(zones_to_exclude) ==
    IF zones_to_exclude.none THEN {}
    ELSE {zones_to_exclude.list[i] : i \in DOMAIN zones_to_exclude.list}

\* chr(val) accepts the code points 0..0x10ffff
ChrOK(val) == val >= 0 /\ val <= MAX_CHR

\* tuple.index(0): the 0-based index of the first zero, no result if absent
HasZero(ints) == \E i \in DOMAIN ints : ints[i] = 0
IndexOfZero(ints) ==
    (CHOOSE i \in DOMAIN ints : ints[i] = 0 /\ \A j \in 1..(i - 1) : ints[j] # 0) - 1

\* the counter _read_string returns for a terminator at index i0
StringEnd(n0, i0) == n0 + 4 * i0 + 4

\* _read_string(file_obj, n0) at the current offset: the exception it raises
\* ("none" if it returns), the string, the returned counter, the new offset
ReadString(n0) ==
    LET buffer == BUFFER_INTS * 4
        got == Got(buffer)
    IN  IF got # buffer
        THEN [exc |-> "struct.error", str |-> <<>>, n |-> n0, pos |-> pos + got]
        ELSE LET ints == WordsAt(pos, BUFFER_INTS) IN
             IF ~HasZero(ints)
             THEN [exc |-> "ValueError", str |-> <<>>, n |-> n0, pos |-> pos + got]
             ELSE LET i0 == IndexOfZero(ints)
                      n1 == StringEnd(n0, i0)
                      all_ints == SubSeq(ints, 1, i0)
                  IN  IF \E i \in DOMAIN all_ints : ~ChrOK(all_ints[i])
                      THEN [exc |-> "ValueError", str |-> <<>>, n |-> n1, pos |-> n1]
                      ELSE [exc |-> "none", str |-> all_ints, n |-> n1, pos |-> n1]

----------------------------------------------------------------------------
(* read_tecplot_binary: the call and the header *)

\* read_tecplot_binary is entered with a file and zones_to_exclude; the file
\* is opened at offset 0 and the reader object keeps what it held
Call(S) ==
    /\ pc \in {"idle", "done"}
    /\ \E inp \in S :
        /\ fd' = inp
        /\ f' = FileOf(inp)
        /\ excl' = zones_to_exclude_to_set(inp.ex)
    /\ pos' = 0
    /\ calls' = calls + 1
    /\ hdr' = Hdr0
    /\ zd' = Zd0
    /\ handed' = <<>>
    /\ status' = "running"
    /\ err' = "none"
    /\ pc' = "magic"
    /\ UNCHANGED <<n, zn, zones, peer>>

FirstCall == calls = 0 /\ Call(Inputs)

MagicOK(lo, hi) == lo = MAGIC_LO /\ hi = MAGIC_HI
ByteOrderUnchecked(w) == TRUE
ByteOrderOK(w) == w = 1
FileTypeOK(w) == w = 0
NvarsOK(w) == w \in NVARS_OK

\* lines 757-764
ReadMagic ==
    /\ pc = "magic"
    /\ LET got == Got(8) IN
        /\ pos' = pos + got
        /\ n' = n + 8
        /\ IF got # 8 THEN Raise("struct.error")
           ELSE IF ~MagicOK(WordAt(pos, 1), WordAt(pos, 2)) THEN Raise("AssertionError")
           ELSE Goto("byte_order")
    /\ UNCHANGED <<f, zn, zones, excl, calls, hdr, zd, handed, fd, peer>>

\* lines 767-769
ReadByteOrder ==
    /\ pc = "byte_order"
    /\ LET got == Got(4) IN
        /\ pos' = pos + got
        /\ n' = n + 4
        /\ IF got # 4 THEN Raise("struct.error")
           ELSE IF ~ByteOrderOK(WordAt(pos, 1)) THEN Raise("AssertionError")
           ELSE Goto("file_type")
    /\ UNCHANGED <<f, zn, zones, excl, calls, hdr, zd, handed, fd, peer>>

\* lines 776-782
ReadFileType ==
    /\ pc = "file_type"
    /\ LET got == Got(4) IN
        /\ pos' = pos + got
        /\ n' = n + 4
        /\ IF got # 4 THEN Raise("struct.error")
           ELSE IF ~FileTypeOK(WordAt(pos, 1)) THEN Raise("AssertionError")
           ELSE Goto("title")
    /\ UNCHANGED <<f, zn, zones, excl, calls, hdr, zd, handed, fd, peer>>

\* lines 784-786
ReadTitle ==
    /\ pc = "title"
    /\ LET r == ReadString(n) IN
        /\ pos' = r.pos
        /\ IF r.exc # "none"
           THEN Raise(r.exc) /\ UNCHANGED <<n, hdr>>
           ELSE n' = r.n /\ hdr' = [hdr EXCEPT !.title = r.str] /\ Goto("nvars")
    /\ UNCHANGED <<f, zn, zones, excl, calls, zd, handed, fd, peer>>

\* lines 789-791
ReadNvars ==
    /\ pc = "nvars"
    /\ LET got == Got(4) IN
        /\ pos' = pos + got
        /\ n' = n + 4
        /\ IF got # 4 THEN Raise("struct.error") /\ UNCHANGED hdr
           ELSE IF ~NvarsOK(WordAt(pos, 1)) THEN Raise("AssertionError") /\ UNCHANGED hdr
           ELSE hdr' = [hdr EXCEPT !.nvars = WordAt(pos, 1)] /\ Goto("var_name")
    /\ UNCHANGED <<f, zn, zones, excl, calls, zd, handed, fd, peer>>

\* the loop stops one name early
AfterVarNameShort(nread, nvars) == IF nread + 1 < nvars THEN "var_name" ELSE "zone_marker"

\* where the variable-name loop goes after one more name
AfterVarName(nread, nvars) == IF nread < nvars THEN "var_name" ELSE "zone_marker"

\* lines 799-802, one iteration
ReadVarName ==
    /\ pc = "var_name"
    /\ LET r == ReadString(n) IN
        /\ pos' = r.pos
        /\ IF r.exc # "none"
           THEN Raise(r.exc) /\ UNCHANGED <<n, hdr>>
           ELSE /\ n' = r.n
                /\ hdr' = [hdr EXCEPT !.var_names = Append(@, r.str)]
                /\ Goto(AfterVarName(Len(hdr.var_names) + 1, hdr.nvars))
    /\ UNCHANGED <<f, zn, zones, excl, calls, zd, handed, fd, peer>>

----------------------------------------------------------------------------
(* _read_binary_zones: the zone descriptor loop *)

is_ordered_zone(zone_type) == zone_type = 0
is_fe_poly_zone(zone_type) == zone_type \in {6, 7}

\* the two polygonal types are left out
is_fe_zone_no_poly(zone_type) == zone_type \in {1, 2, 3, 4, 5}

is_fe_zone(zone_type) == zone_type \in {1, 2, 3, 4, 5, 6, 7}

\* the asserts of lines 660-665
ZoneRecordOK(zone_type, data_packing, specify_var) ==
    /\ zone_type \in {0, 1, 2, 3, 4, 5, 6, 7}
    /\ data_packing \in {0, 1}
    /\ zone_type = 3
    /\ data_packing = 0
    /\ specify_var = 0

\* the asserts of lines 674-675
ZoneRawOK(raw_local, nmisc) == raw_local \in {0, 1} /\ nmisc >= 0

\* the counter the loop holds: the argument n before the first iteration
LoopN == IF hdr.izone = -1 THEN n ELSE zn

\* the counter stays after the value that ended the loop
BreakCounterKept(n1) == n1

\* line 614: n -= 4, the counter the loop breaks with and seeks to
BreakCounter(n1) == n1 - 4

\* lines 608-617: the loop test and the marker read
ReadZoneMarker ==
    /\ pc = "zone_marker"
    /\ IF ~(hdr.izone < ZONE_CAP)
       THEN \* the while condition fails: return n, zones
            /\ n' = LoopN /\ zn' = LoopN
            /\ Goto("flag")
            /\ UNCHANGED <<pos, hdr>>
       ELSE LET got == Got(4) IN
            /\ hdr' = [hdr EXCEPT !.izone = @ + 1]
            /\ IF got # 4
               THEN pos' = pos + got /\ zn' = LoopN + 4 /\ Raise("struct.error")
                    /\ UNCHANGED n
               ELSE IF WordAt(pos, 1) # ZONE_MARKER
               THEN \* n -= 4; file_obj.seek(n); break; return; self.n = n
                    /\ pos' = BreakCounter(LoopN + 4)
                    /\ zn' = BreakCounter(LoopN + 4)
                    /\ n' = BreakCounter(LoopN + 4)
                    /\ Goto("flag")
               ELSE pos' = pos + got /\ zn' = LoopN + 4 /\ Goto("zone_name")
                    /\ UNCHANGED n
    /\ UNCHANGED <<f, zones, excl, calls, zd, handed, fd, peer>>

\* line 621
ReadZoneName ==
    /\ pc = "zone_name"
    /\ LET r == ReadString(zn) IN
        /\ pos' = r.pos
        /\ IF r.exc # "none"
           THEN Raise(r.exc) /\ UNCHANGED <<zn, hdr>>
           ELSE zn' = r.n /\ hdr' = [hdr EXCEPT !.zone_name = r.str] /\ Goto("zone_record")
    /\ UNCHANGED <<f, n, zones, excl, calls, zd, handed, fd, peer>>

\* lines 655-670: parent_zone, strand_id, solution_time (8 bytes), unused,
\* zone_type, data_packing, specify_var
ReadZoneRecord ==
    /\ pc = "zone_record"
    /\ LET got == Got(32) IN
        /\ pos' = pos + got
        /\ zn' = zn + 32
        /\ IF got # 32 THEN Raise("struct.error") /\ UNCHANGED hdr
           ELSE IF ~ZoneRecordOK(WordAt(pos, 6), WordAt(pos, 7), WordAt(pos, 8))
           THEN Raise("AssertionError") /\ UNCHANGED hdr
           ELSE /\ hdr' = [hdr EXCEPT !.zone_type = WordAt(pos, 6),
                                      !.data_packing = WordAt(pos, 7)]
                /\ Goto("zone_raw")
    /\ UNCHANGED <<f, n, zones, excl, calls, zd, handed, fd, peer>>

\* lines 672-683
ReadZoneRaw ==
    /\ pc = "zone_raw"
    /\ LET got == Got(8) IN
        /\ pos' = pos + got
        /\ zn' = zn + 8
        /\ IF got # 8 THEN Raise("struct.error") /\ UNCHANGED hdr
           ELSE IF ~ZoneRawOK(WordAt(pos, 1), WordAt(pos, 2))
           THEN Raise("AssertionError") /\ UNCHANGED hdr
           ELSE IF is_ordered_zone(hdr.zone_type) \/ is_fe_poly_zone(hdr.zone_type)
           THEN Raise("RuntimeError") /\ UNCHANGED hdr
           ELSE /\ hdr' = [hdr EXCEPT !.raw_local = WordAt(pos, 1), !.nmisc = WordAt(pos, 2)]
                /\ Goto("zone_dims")
    /\ UNCHANGED <<f, n, zones, excl, calls, zd, handed, fd, peer>>

\* lines 685-686: nelement and the three cell dimensions
ReadZoneDims ==
    /\ pc = "zone_dims"
    /\ LET got == Got(16) IN
        /\ pos' = pos + got
        /\ zn' = zn + 16
        /\ IF got # 16 THEN Raise("struct.error") /\ UNCHANGED hdr
           ELSE hdr' = [hdr EXCEPT !.nelement = WordAt(pos, 1)] /\ Goto("zone_sep")
    /\ UNCHANGED <<f, n, zones, excl, calls, zd, handed, fd, peer>>

ZoneTuple(h) ==
    [zone_name |-> h.zone_name, zone_type |-> h.zone_type,
     data_packing |-> h.data_packing, raw_local |-> h.raw_local,
     n_misc_neighbor_connections |-> h.nmisc, nelement |-> h.nelement]

\* lines 690-698: the separator is read and not unpacked
ReadZoneSep ==
    /\ pc = "zone_sep"
    /\ pos' = pos + Got(4)
    /\ zn' = zn + 4
    /\ hdr' = [hdr EXCEPT !.ztuples = Append(@, ZoneTuple(hdr))]
    /\ Goto("zone_marker")
    /\ UNCHANGED <<f, n, zones, excl, calls, zd, handed, fd, peer>>

\* where read_tecplot_binary goes when it has nzones left to decode
ZoneLoop(nleft) == IF nleft > 0 THEN "zd_marker" ELSE "final"

\* lines 811-879 and 256-261: the section flag; a geometry record is read
\* in the same step
ReadFlag ==
    /\ pc = "flag"
    /\ LET got == Got(4)
           ndata == GEOM_WORDS * 4
           got2 == Min(ndata, IF pos + 4 >= f.len THEN 0 ELSE f.len - (pos + 4))
       IN  IF got # 4
           THEN pos' = pos + got /\ n' = n + 4 /\ Raise("struct.error") /\ UNCHANGED hdr
           ELSE IF WordAt(pos, 1) = ZONE_MARKER
           THEN /\ pos' = pos + 4 + got2
                /\ n' = n + 4 + ndata
                /\ IF got2 # ndata THEN Raise("struct.error") /\ UNCHANGED hdr
                   ELSE hdr' = [hdr EXCEPT !.returned = TRUE]
                        /\ Goto(ZoneLoop(Len(hdr.ztuples)))
           ELSE /\ pos' = pos + 4
                /\ n' = n + 4
                /\ IF WordAt(pos, 1) = EOHMARKER
                   THEN hdr' = [hdr EXCEPT !.returned = TRUE]
                        /\ Goto(ZoneLoop(Len(hdr.ztuples)))
                   ELSE Raise("RuntimeError") /\ UNCHANGED hdr
    /\ UNCHANGED <<f, zn, zones, excl, calls, zd, handed, fd, peer>>

----------------------------------------------------------------------------
(* _read_binary_zone: the data block of one zone *)

\* the descriptor of the zone being decoded
CurZone == hdr.ztuples[zd.i + 1]

Step(name) == [zd EXCEPT !.steps = Append(@, name)]

\* _data_fmt_ndatas_dtype: bytes per value, 0 for a code it raises on
FmtNdata(data_fmt) ==
    CASE data_fmt = -1 -> 4
      [] data_fmt = 1  -> 4
      [] data_fmt = 2  -> 8
      [] data_fmt = 3  -> 8
      [] OTHER         -> 0

\* the format codes are not compared with each other
UniformFmtAny(data_fmts) == TRUE

\* line 535: max(data_fmts) == min(data_fmts)
UniformFmt(data_fmts) == \A i, j \in DOMAIN data_fmts : data_fmts[i] = data_fmts[j]

\* _load_binary_data(file_obj, a * b, data_fmts) at the current offset: the
\* exception it raises, the bytes read, ndata, and the values of the array.
\* A count above the length of the file is a short read whatever the width,
\* which keeps the products small.
LoadBinaryData(a, b, data_fmts) ==
    IF \E i \in DOMAIN data_fmts : FmtNdata(data_fmts[i]) = 0
    THEN [exc |-> "NotImplementedError", got |-> 0, ndata |-> 0, vals |-> <<>>]
    ELSE IF ~UniformFmt(data_fmts)
    THEN [exc |-> "RuntimeError", got |-> 0, ndata |-> 0, vals |-> <<>>]
    ELSE LET w == FmtNdata(data_fmts[1])
             big == a > f.len \/ b > f.len
             ndata == IF big THEN f.len + 8 ELSE a * b * w
             got == Got(ndata)
         IN  IF got % w # 0
             THEN [exc |-> "ValueError", got |-> got, ndata |-> ndata, vals |-> <<>>]
             ELSE [exc |-> "none", got |-> got, ndata |-> ndata,
                   vals |-> [q \in 1..(got \div w) |->
                                 WordsAt(pos + (q - 1) * w, w \div 4)]]

\* ndarray.reshape((rows, cols)) of an array of size values returns when
\* size = rows * cols, a row count of -1 standing for size / cols; the
\* product is taken only when neither factor exceeds size
ReshapeOK(size, rows, cols) ==
    IF rows = -1 THEN size % cols = 0
    ELSE /\ rows >= 0
         /\ IF size = 0 THEN rows = 0 \/ cols = 0
            ELSE rows <= size /\ cols <= size /\ size = rows * cols

\* the rows the reshaped array has
ReshapeRows(size, rows, cols) == IF rows = -1 THEN size \div cols ELSE rows

\* the values are taken node by node
TransposeNone(vals, nvars, nnodes) ==
    [j \in 1..nnodes |-> [i \in 1..nvars |-> vals[(j - 1) * nvars + i]]]

\* zone_data0.reshape((nvars, nnodes)).T: row j is node j, column i variable i
Transpose(vals, nvars, nnodes) ==
    [j \in 1..nnodes |-> [i \in 1..nvars |-> vals[(i - 1) * nnodes + j]]]

\* the marker is not compared
ZoneDataMarkerAny(w) == TRUE

\* line 365: assert marker == 299.0
ZoneDataMarkerOK(w) == w = ZONE_MARKER

\* lines 354-365
ReadZoneDataMarker ==
    /\ pc = "zd_marker"
    /\ IF CurZone.zone_type \notin {3, 4}
       THEN Raise("RuntimeError") /\ UNCHANGED <<pos, n, zd>>
       ELSE LET got == Got(4) IN
            /\ pos' = pos + got
            /\ n' = n + 4
            /\ IF got # 4 THEN Raise("struct.error") /\ UNCHANGED zd
               ELSE IF ~ZoneDataMarkerOK(WordAt(pos, 1))
               THEN Raise("AssertionError") /\ UNCHANGED zd
               ELSE zd' = [Step("marker") EXCEPT !.start = n] /\ Goto("zd_formats")
    /\ UNCHANGED <<f, zn, zones, excl, calls, hdr, handed, fd, peer>>

\* lines 371-373
ReadFormats ==
    /\ pc = "zd_formats"
    /\ LET ndata == 4 * hdr.nvars
           got == Got(ndata)
       IN  /\ pos' = pos + got
           /\ n' = n + ndata
           /\ IF got # ndata THEN Raise("struct.error") /\ UNCHANGED zd
              ELSE /\ zd' = [Step("formats") EXCEPT !.data_fmt = WordsAt(pos, hdr.nvars)]
                   /\ Goto("zd_has_passive")
    /\ UNCHANGED <<f, zn, zones, excl, calls, hdr, handed, fd, peer>>

\* lines 379-383
ReadHasPassive ==
    /\ pc = "zd_has_passive"
    /\ LET got == Got(4) IN
        /\ pos' = pos + got
        /\ n' = n + 4
        /\ IF got # 4 THEN Raise("struct.error") /\ UNCHANGED zd
           ELSE IF WordAt(pos, 1) \notin {0, 1} THEN Raise("AssertionError") /\ UNCHANGED zd
           ELSE /\ zd' = [Step("has_passive") EXCEPT !.has_passive = WordAt(pos, 1)]
                /\ Goto(IF WordAt(pos, 1) = 1 THEN "zd_is_passive" ELSE "zd_var_sharing")
    /\ UNCHANGED <<f, zn, zones, excl, calls, hdr, handed, fd, peer>>

\* one flag is read for all the variables
PassiveFlagBytesOne(nvars) == 4

\* line 387: ndata = 4 * nvars
PassiveFlagBytes(nvars) == 4 * nvars

\* lines 387-389
ReadIsPassive ==
    /\ pc = "zd_is_passive"
    /\ LET ndata == PassiveFlagBytes(hdr.nvars)
           got == Got(ndata)
       IN  /\ pos' = pos + got
           /\ n' = n + ndata
           /\ IF got # ndata THEN Raise("struct.error") /\ UNCHANGED zd
              ELSE zd' = Step("is_passive") /\ Goto("zd_var_sharing")
    /\ UNCHANGED <<f, zn, zones, excl, calls, hdr, handed, fd, peer>>

\* lines 393-398
ReadVarSharing ==
    /\ pc = "zd_var_sharing"
    /\ LET got == Got(4) IN
        /\ pos' = pos + got
        /\ n' = n + 4
        /\ IF got # 4 THEN Raise("struct.error") /\ UNCHANGED zd
           ELSE IF WordAt(pos, 1) \notin {0, 1} THEN Raise("AssertionError") /\ UNCHANGED zd
           ELSE IF WordAt(pos, 1) = 1 THEN Raise("NotImplementedError") /\ UNCHANGED zd
           ELSE zd' = Step("var_sharing") /\ Goto("zd_conn_sharing")
    /\ UNCHANGED <<f, zn, zones, excl, calls, hdr, handed, fd, peer>>

\* the raw_local assert is missing
LayoutOKNoRawLocal(z) ==
    /\ z.zone_type = 3
    /\ z.data_packing = 0
    /\ z.n_misc_neighbor_connections > 0

\* the asserts of lines 426-429
LayoutOK(z) ==
    /\ z.zone_type = 3
    /\ z.data_packing = 0
    /\ z.raw_local = 0
    /\ z.n_misc_neighbor_connections > 0

\* lines 405-429
ReadConnSharing ==
    /\ pc = "zd_conn_sharing"
    /\ LET got == Got(4) IN
        /\ pos' = pos + got
        /\ n' = n + 4
        /\ IF got # 4 THEN Raise("struct.error") /\ UNCHANGED zd
           ELSE IF WordAt(pos, 1) # -1 THEN Raise("AssertionError") /\ UNCHANGED zd
           ELSE IF is_ordered_zone(CurZone.zone_type)
           THEN Raise("RuntimeError") /\ UNCHANGED zd
           ELSE IF ~is_fe_zone(CurZone.zone_type)
           THEN Raise("UnboundLocalError") /\ UNCHANGED zd
           ELSE IF ~LayoutOK(CurZone) THEN Raise("AssertionError") /\ UNCHANGED zd
           ELSE zd' = Step("conn_sharing") /\ Goto("zd_min_max")
    /\ UNCHANGED <<f, zn, zones, excl, calls, hdr, handed, fd, peer>>

\* lines 437-438 and _read_binary_min_max
ReadMinMax ==
    /\ pc = "zd_min_max"
    /\ LET r == LoadBinaryData(2, hdr.nvars, <<2>>) IN
        /\ pos' = pos + r.got
        /\ IF r.exc # "none" THEN Raise(r.exc) /\ UNCHANGED <<n, zd>>
           ELSE IF ~ReshapeOK(Len(r.vals), 2, hdr.nvars)
           THEN Raise("ValueError") /\ UNCHANGED <<n, zd>>
           ELSE n' = n + r.ndata /\ zd' = Step("min_max") /\ Goto("zd_nodal")
    /\ UNCHANGED <<f, zn, zones, excl, calls, hdr, handed, fd, peer>>

\* lines 442-447
ReadNodal ==
    /\ pc = "zd_nodal"
    /\ LET nnodes == CurZone.n_misc_neighbor_connections
           r == LoadBinaryData(hdr.nvars, nnodes, zd.data_fmt)
       IN  /\ pos' = pos + r.got
           /\ IF r.exc # "none" THEN Raise(r.exc) /\ UNCHANGED <<n, zd>>
              ELSE IF ~ReshapeOK(Len(r.vals), hdr.nvars, nnodes)
              THEN Raise("ValueError") /\ UNCHANGED <<n, zd>>
              ELSE /\ n' = n + r.ndata
                   /\ IF pos + r.got # n + r.ndata
                      THEN Raise("AssertionError") /\ UNCHANGED zd
                      ELSE /\ zd' = [Step("nodal") EXCEPT
                                       !.zone_data = Transpose(r.vals, hdr.nvars, nnodes)]
                           /\ Goto("zd_quads")
    /\ UNCHANGED <<f, zn, zones, excl, calls, hdr, handed, fd, peer>>

\* the row count is left to reshape
QuadShapeRowsAny(nelement) == -1

\* line 452: the row count handed to reshape
QuadShapeRows(nelement) == nelement

\* the counter is not advanced over the connectivity block
QuadsAdvanceSkipped(n0, ndatai) == n0

\* line 453: self.n += ndatai
QuadsAdvance(n0, ndatai) == n0 + ndatai

\* quads.reshape(nelement, 4) of the int32 values read
QuadRows(vals, rows) ==
    [e \in 1..rows |-> [c \in 1..4 |-> vals[(e - 1) * 4 + c][1]]]

\* lines 450-453 and 459
ReadQuads ==
    /\ pc = "zd_quads"
    /\ LET nelement == CurZone.nelement
           r == LoadBinaryData(4, nelement, <<-1>>)
       IN  /\ pos' = pos + r.got
           /\ IF r.exc # "none" THEN Raise(r.exc) /\ UNCHANGED <<n, zd>>
              ELSE IF ~ReshapeOK(Len(r.vals), QuadShapeRows(nelement), 4)
              THEN Raise("ValueError") /\ UNCHANGED <<n, zd>>
              ELSE /\ n' = QuadsAdvance(n, r.ndata)
                   /\ zd' = [Step("quads") EXCEPT
                               !.quads = QuadRows(r.vals,
                                   ReshapeRows(Len(r.vals), QuadShapeRows(nelement), 4))]
                   /\ Goto("commit")
    /\ UNCHANGED <<f, zn, zones, excl, calls, hdr, handed, fd, peer>>

----------------------------------------------------------------------------
(* read_tecplot_binary: the zone loop and the end of the call *)

\* the minimum is not checked
MinOKUnchecked(quads) == TRUE

\* quads.min() >= 0 on a table with at least one row
MinOK(quads) == \A e \in DOMAIN quads : \A c \in 1..4 : quads[e][c] >= 0

\* zone_data[:, :3] and zone_data[:, 3:]
Xyz(zone_data) == [j \in DOMAIN zone_data |-> SubSeq(zone_data[j], 1, 3)]
NodalResults(zone_data) ==
    [j \in DOMAIN zone_data |-> SubSeq(zone_data[j], 4, Len(zone_data[j]))]

\* the arguments of Zone.set_zone_from_360
ZoneOf(h, z, name) ==
    [zone_name |-> name, title |-> h.title, variables |-> h.var_names,
     xyz |-> Xyz(z.zone_data), quads |-> z.quads,
     nodal_results |-> NodalResults(z.zone_data)]

\* the zone index is taken as one-based
ExcludedOneBased(izone, set_zones_to_exclude) == (izone + 1) \in set_zones_to_exclude

\* line 276
Excluded(izone, set_zones_to_exclude) == izone \in set_zones_to_exclude

\* the zone is kept back until the call completes
AppendedLater(zone_list, zone) == zone_list

\* line 284: self.zones.append(zone)
Appended(zone_list, zone) == Append(zone_list, zone)

\* lines 268-284: the checks on the decoded zone and its hand-over
CommitZone ==
    /\ pc = "commit"
    /\ IF zd.quads = <<>>
       THEN Raise("ValueError") /\ UNCHANGED <<zones, handed, zd>>
       ELSE IF ~MinOK(zd.quads)
       THEN Raise("AssertionError") /\ UNCHANGED <<zones, handed, zd>>
       ELSE /\ IF Excluded(zd.i, excl)
               THEN UNCHANGED <<zones, handed>>
               ELSE /\ zones' = Appended(zones, ZoneOf(hdr, zd, CurZone.zone_name))
                    /\ handed' = Append(handed, zd.i)
            /\ zd' = [zd EXCEPT !.i = @ + 1, !.steps = <<>>]
            /\ Goto(ZoneLoop(Len(hdr.ztuples) - (zd.i + 1)))
    /\ UNCHANGED <<f, pos, n, zn, excl, calls, hdr, fd, peer>>

\* the byte read at the end is ignored
TrailingDataIgnored(nread) == FALSE

\* lines 288-291: is the byte read at the end a reason to raise
TrailingData(nread) == nread > 0

FinalCheck ==
    /\ pc = "final"
    /\ LET got == Got(1) IN
        /\ pos' = pos + got
        /\ IF TrailingData(got) THEN Raise("RuntimeError") ELSE Goto("finish")
    /\ UNCHANGED <<f, n, zn, zones, excl, calls, hdr, zd, handed, fd, peer>>

\* lines 292-296: zone is the last zone handed over by this call
Finish ==
    /\ pc = "finish"
    /\ IF handed = <<>>
       THEN Raise("UnboundLocalError")
       ELSE pc' = "done" /\ status' = "ok" /\ UNCHANGED err
    /\ UNCHANGED <<f, pos, n, zn, zones, excl, calls, hdr, zd, handed, fd, peer>>

Decode ==
    \/ ReadMagic \/ ReadByteOrder \/ ReadFileType \/ ReadTitle \/ ReadNvars
    \/ ReadVarName
    \/ ReadZoneMarker \/ ReadZoneName \/ ReadZoneRecord \/ ReadZoneRaw
    \/ ReadZoneDims \/ ReadZoneSep
    \/ ReadFlag
    \/ ReadZoneDataMarker \/ ReadFormats \/ ReadHasPassive \/ ReadIsPassive
    \/ ReadVarSharing \/ ReadConnSharing \/ ReadMinMax \/ ReadNodal \/ ReadQuads
    \/ CommitZone \/ FinalCheck \/ Finish

\* one decode on a freshly constructed reader object
Next == FirstCall \/ Decode

Spec == Init /\ [][Next]_vars

\* read_tecplot_binary called up to MaxCalls times on one reader object
ReuseCall == calls < MaxCalls /\ Call(ReuseInputs)

NextReuse == ReuseCall \/ Decode

SpecReuse == Init /\ [][NextReuse]_vars

\* one decode of a file with more zone records than the cap
CapCall == calls = 0 /\ Call(CapInputs)

NextCap == CapCall \/ Decode

\* the decode of CapFile at the loop test of _read_binary_zones with
\* ZONE_CAP records read: the state NextCap reaches from Init after the
\* call, the header fields and 6 reads for each of the ZONE_CAP records
CapMid ==
    /\ fd = CapFile
    /\ f = FileOf(CapFile)
    /\ pos = 4 * (Len(PrefixWords(CapP)) + ZONE_CAP * Len(ZoneRecWords(CapP, 0)))
    /\ zn = pos
    /\ n = 4 * Len(PrefixWords(CapP))
    /\ zones = <<>>
    /\ pc = "zone_marker"
    /\ status = "running"
    /\ err = "none"
    /\ excl = {}
    /\ calls = 1
    /\ hdr = [title |-> TitleOf(CapP), nvars |-> CapP.nv, var_names |-> VarNamesOf(CapP),
              izone |-> ZONE_CAP - 1,
              ztuples |-> [k \in 1..ZONE_CAP |-> ZoneTuple(
                  [zone_name |-> ZoneName(k - 1), zone_type |-> 3, data_packing |-> 0,
                   raw_local |-> 0, nmisc |-> CapP.nn, nelement |-> CapP.ne])],
              zone_name |-> ZoneName(ZONE_CAP - 1), zone_type |-> 3, data_packing |-> 0,
              raw_local |-> 0, nmisc |-> CapP.nn, nelement |-> CapP.ne, returned |-> FALSE]
    /\ zd = Zd0
    /\ handed = <<>>
    /\ peer = NoPeer

\* the construction of the reader; CapMid, a state of the behaviour that
\* starts there, is listed with it
InitCap == Init \/ CapMid

SpecCap == InitCap /\ [][NextCap]_vars

\* the same from the construction alone
SpecCapFull == Init /\ [][NextCap]_vars

----------------------------------------------------------------------------
(* Notions the properties below are stated with *)

\* the decoder is inside _read_binary_zones, which counts in its local n
InZoneLoop ==
    \/ pc \in {"zone_name", "zone_record", "zone_raw", "zone_dims", "zone_sep"}
    \/ pc = "zone_marker" /\ hdr.izone >= 0

\* the counter the decoder tracks the offset with
Tracked == IF InZoneLoop THEN zn ELSE n

\* the next thing the decoder does is read from the open file
AtRead == pc \notin {"idle", "done", "commit", "finish"}

\* the exclusion set as the caller gave it
CallerExcluded ==
    IF fd.ex.none THEN {} ELSE {fd.ex.list[i] : i \in 1..Len(fd.ex.list)}

----------------------------------------------------------------------------
(* C1: at every boundary between two reads of a call, whatever calls were  *)
(* made on the reader object before, the tracked counter equals the offset *)
(* of the open file; the counter is 0 when the first byte is read.         *)
C1_CursorInvariant == AtRead => Tracked = pos

----------------------------------------------------------------------------
(* C2: when read_tecplot_binary completes without error on a well-formed   *)
(* file, the final value of the tracked counter n equals the length of the *)
(* file in bytes, and so does the offset of the file: no under-read and no *)
(* over-read.                                                              *)
C2_ByteAccounting ==
    (status = "ok" /\ WellFormed(fd)) =>
        /\ n = 4 * Len(FileWords(fd.p))
        /\ n = f.len
        /\ pos = f.len

C2_Witness ==
    /\ status = "ok" /\ WellFormed(fd)
    /\ fd.p.nz = 2 /\ Len(handed) = 2
    /\ n = f.len

----------------------------------------------------------------------------
(* C3: once the data of every declared zone is consumed, the decode ends   *)
(* in an error if at least one unread byte remains in the file, and it     *)
(* passes the check only when no byte remains.                             *)
C3_TrailingData ==
    [][pc = "final" =>
         /\ pos < f.len => (pc' = "done" /\ status' = "error")
         /\ pc' = "finish" => pos >= f.len]_vars

C3_Witness ==
    /\ pc = "done" /\ status = "error" /\ err = "RuntimeError"
    /\ fd.mut.kind = "trail"
    /\ zd.i = Len(hdr.ztuples) /\ zd.i = 1
    /\ pos <= f.len

----------------------------------------------------------------------------
\* Notions for C4
\* the words of the file are those the writer laid out, but for one
FieldsInPlace == fd.mut.kind \in {"none", "set", "trail"}

\* word off (1-based) of the record of zone k as it stands in the file
RecWord(k, off) ==
    f.words[Len(PrefixWords(fd.p)) + k * Len(ZoneRecWords(fd.p, 0)) + off]

\* zone_type, data_packing, raw_local and the neighbor count of the record
SupportedInFile(k) ==
    /\ RecWord(k, 10) = 3
    /\ RecWord(k, 11) = 0
    /\ RecWord(k, 13) = 0
    /\ RecWord(k, 14) > 0

(* C4: every zone handed to the collaborator comes from a descriptor with  *)
(* zone_type 3, data_packing 0, raw_local_flag 0 and a positive            *)
(* misc_neighbor_connection_count; a descriptor of the file with any other *)
(* combination makes the decode fail and its zone is never handed over.    *)
C4_SupportedLayoutOnly ==
    /\ \A i \in 1..Len(handed) :
         LET z == hdr.ztuples[handed[i] + 1] IN
            /\ z.zone_type = 3
            /\ z.data_packing = 0
            /\ z.raw_local = 0
            /\ z.n_misc_neighbor_connections > 0
    /\ (status # "none" /\ FieldsInPlace) =>
         \A k \in 0..(fd.p.nz - 1) :
            ~SupportedInFile(k) =>
                /\ status # "ok"
                /\ \A i \in 1..Len(handed) : handed[i] # k

\* zone 0 was handed over and zone 1, whose record says raw_local = 1 or an
\* ordered or polygonal zone type, made the decode fail
C4_Witness ==
    /\ pc = "done" /\ status = "error" /\ FieldsInPlace /\ fd.p.nz = 2
    /\ \/ handed = <<0>> /\ RecWord(1, 13) = 1
       \/ RecWord(1, 10) \in {0, 6, 7}

----------------------------------------------------------------------------
\* Notions for C5
StepsOfZone ==
    <<"marker", "formats", "has_passive">>
    \o (IF zd.has_passive = 1 THEN <<"is_passive">> ELSE <<>>)
    \o <<"var_sharing", "conn_sharing", "min_max", "nodal", "quads">>

CompleteZone ==
    /\ zd.steps = StepsOfZone
    /\ Len(zd.zone_data) = CurZone.n_misc_neighbor_connections
    /\ \A j \in 1..Len(zd.zone_data) : Len(zd.zone_data[j]) = hdr.nvars
    /\ Len(zd.quads) >= 1
    /\ \A e \in 1..Len(zd.quads) : \A c \in 1..4 : zd.quads[e][c] >= 0

(* C5: a zone is appended to the zone list and handed to the collaborator  *)
(* only when its whole data block has been read (marker, format codes,     *)
(* passive and sharing flags, min/max block, nodal block, connectivity     *)
(* block) and the minimum-index check has passed: one complete zone at a   *)
(* time.                                                                   *)
C5_AtomicEmission ==
    [][(zones' # zones \/ (handed' # handed /\ handed' # <<>>)) =>
          /\ CompleteZone
          /\ Len(zones') = Len(zones) + 1
          /\ SubSeq(zones', 1, Len(zones)) = zones
          /\ handed' = Append(handed, zd.i)
          /\ zones'[Len(zones')].quads = zd.quads
          /\ Len(zones'[Len(zones')].xyz) = Len(zd.zone_data)]_vars

\* the second zone of a file was handed over after the first
C5_Witness == Len(zones) = 2 /\ handed = <<0, 1>> /\ zones[1] # zones[2]

----------------------------------------------------------------------------
\* Notions for C6
NotExcluded(k) == k \notin CallerExcluded

\* what the writer put into zone k of a file of parameters p
ExpectedZone(p, k) ==
    [zone_name |-> ZoneName(k), title |-> TitleOf(p), variables |-> VarNamesOf(p),
     xyz |-> [j \in 1..p.nn |->
                [c \in 1..3 |-> ValueWords(p.fmt, NodalValue(k, c - 1, j - 1))]],
     quads |-> [e \in 1..p.ne |-> [c \in 1..4 |-> QuadEntry(p.nn, e - 1, c - 1)]],
     nodal_results |-> [j \in 1..p.nn |->
                [c \in 1..(p.nv - 3) |-> ValueWords(p.fmt, NodalValue(k, c + 2, j - 1))]]]

(* C6: the zones handed to the collaborator are exactly the decoded zones  *)
(* whose zero-based index is not in the caller's exclusion list (None      *)
(* meaning empty), in file order, each with xyz = the first 3 columns of   *)
(* its field values and nodal_results = the other nvars - 3 columns; the   *)
(* data block of an excluded zone is read in full, so the cursor after a   *)
(* zone does not depend on the exclusion list; a decode of a well-formed   *)
(* file that completes has decoded every zone of the file.                 *)
C6_ExclusionSet ==
    status # "none" =>
        /\ handed = SelectSeq([k \in 1..zd.i |-> k - 1], NotExcluded)
        /\ Len(zones) >= Len(handed)
        /\ calls = 1 => Len(zones) = Len(handed)
        /\ WellFormed(fd) =>
            /\ \A i \in 1..Len(handed) :
                  zones[Len(zones) - Len(handed) + i] = ExpectedZone(fd.p, handed[i])
            /\ (zd.i >= 1 /\ pc \in {"zd_marker", "final"}) =>
                   (n = ZoneDataEnd(fd.p, zd.i - 1) /\ pos = n)
            /\ status = "ok" => zd.i = fd.p.nz

\* zone 0 of two was excluded, read all the same, and zone 1 handed over
C6_Witness ==
    /\ pc = "done" /\ WellFormed(fd) /\ fd.p.nz = 2
    /\ CallerExcluded = {0} /\ handed = <<1>>
    /\ zones = <<ExpectedZone(fd.p, 1)>>
    /\ n = ZoneDataEnd(fd.p, 1)

----------------------------------------------------------------------------
(* C7: the decode of a well-formed file cut short at any length aborts     *)
(* with an error and never completes, whether the end of the file falls    *)
(* before the terminator of a string or inside a numeric block.            *)
C7_TruncationAborts ==
    fd.mut.kind = "trunc" =>
        /\ status # "ok"
        /\ pc # "finish"
        /\ pc = "done" => status = "error"

\* the file ended inside the nodal or the connectivity block of the zone
C7_Witness ==
    /\ fd.mut.kind = "trunc" /\ pc = "done" /\ status = "error"
    /\ err = "ValueError"
    /\ Len(zd.steps) >= 6

----------------------------------------------------------------------------
\* Notions for C8
\* the decode has stopped, or will at this read, no further than offset o
\* with nothing of the header decoded
AbortsBy(o) ==
    /\ pos <= o
    /\ status # "ok"
    /\ hdr = Hdr0
    /\ handed = <<>>
    /\ pc = "done" => (status = "error" /\ err = "AssertionError" /\ pos = o)

(* C8: the header decoder checks, in this order, that the first 8 bytes    *)
(* are '#!TDV112', that the next integer is 1 and that the file-type code  *)
(* is 0; the first mismatch aborts the decode before the title, a variable *)
(* name or a zone descriptor is read, and no zone is handed over.          *)
C8_HeaderValidation ==
    (status # "none" /\ f.len >= 16) =>
        LET magic == f.words[1] = MAGIC_LO /\ f.words[2] = MAGIC_HI
            order == f.words[3] = 1
            ftype == f.words[4] = 0
        IN  /\ ~magic => AbortsBy(8)
            /\ (magic /\ ~order) => AbortsBy(12)
            /\ (magic /\ order /\ ~ftype) => AbortsBy(16)

\* a byte-order word other than 1 stopped the decode after 12 bytes
C8_Witness ==
    /\ pc = "done" /\ err = "AssertionError" /\ pos = 12 /\ f.len >= 16
    /\ f.words[1] = MAGIC_LO /\ f.words[2] = MAGIC_HI /\ f.words[3] # 1

----------------------------------------------------------------------------
\* Notions for C9
\* the index of the first zero word at or after index i
ZeroFrom(w, i) == CHOOSE j \in i..Len(w) : w[j] = 0 /\ \A m \in i..(j - 1) : w[m] # 0

\* the k zero-terminated strings that start at index i
RECURSIVE NamesFrom(_, _, _)
NamesFrom(w, i, k) ==
    IF k = 0 THEN <<>>
    ELSE <<SubSeq(w, i, ZeroFrom(w, i) - 1)>> \o NamesFrom(w, ZeroFrom(w, i) + 1, k - 1)

\* the file holds a terminated title and a word after it
HasCount == \E j \in 5..(Len(f.words) - 1) : f.words[j] = 0

\* the variable-name loop has ended
VarsDone == hdr.izone >= 0 \/ pc \in {"zone_marker", "flag"} \/ hdr.returned

(* C9: the header decoder accepts a variable count only if it is 13 or 22  *)
(* and aborts otherwise; on acceptance it reads exactly that many names    *)
(* and holds them in the order they have in the file.                      *)
C9_VariableTable ==
    /\ (status # "none" /\ HasCount /\ f.words[ZeroFrom(f.words, 5) + 1] \notin {13, 22}) =>
          /\ hdr.nvars = 0 /\ hdr.var_names = <<>>
          /\ ~VarsDone /\ status # "ok"
    /\ hdr.nvars # 0 =>
          /\ hdr.nvars \in {13, 22}
          /\ hdr.nvars = f.words[ZeroFrom(f.words, 5) + 1]
          /\ Len(hdr.var_names) <= hdr.nvars
          /\ hdr.var_names =
                NamesFrom(f.words, ZeroFrom(f.words, 5) + 2, Len(hdr.var_names))
          /\ VarsDone => Len(hdr.var_names) = hdr.nvars

\* a header of 22 variables was returned with the names of the file
C9_Witness ==
    /\ hdr.returned /\ hdr.nvars = 22
    /\ hdr.var_names = VarNamesOf(fd.p)
    /\ hdr.var_names[1] # hdr.var_names[22]

----------------------------------------------------------------------------
\* Notions for C10
AtString == pc \in {"title", "var_name", "zone_name"}

\* the chunk at the offset holds a zero, and character codes before it
ChunkTerminated ==
    /\ Avail >= 4 * BUFFER_INTS
    /\ \E i \in 1..BUFFER_INTS : WordAt(pos, i) = 0
    /\ \A i \in 1..(ZeroFrom(WordsAt(pos, BUFFER_INTS), 1) - 1) :
          WordAt(pos, i) >= 0 /\ WordAt(pos, i) <= MAX_CHR

(* C10: when the first zero code of the 100-integer chunk read at offset s *)
(* is at index i, _read_string returns the first i codes as the string,    *)
(* returns the counter s + 4*i + 4 and leaves the file at that offset, in  *)
(* every call of read_tecplot_binary on the reader object.                 *)
C10_StringWithinChunk ==
    [][(AtString /\ ChunkTerminated) =>
          LET i == ZeroFrom(WordsAt(pos, BUFFER_INTS), 1) - 1
              str == [j \in 1..i |-> WordAt(pos, j)]
          IN  /\ pos' = pos + 4 * i + 4
              /\ pc = "title" => (hdr'.title = str /\ n' = pos')
              /\ pc = "var_name" => (hdr'.var_names = Append(hdr.var_names, str) /\ n' = pos')
              /\ pc = "zone_name" => (hdr'.zone_name = str /\ zn' = pos')]_vars

----------------------------------------------------------------------------
\* Notions for C11
\* the chunk at the offset holds no zero, the chunk after it does, and the
\* codes before that zero are character codes
SecondChunkTerminated ==
    /\ Avail >= 8 * BUFFER_INTS
    /\ \A i \in 1..BUFFER_INTS : WordAt(pos, i) # 0
    /\ \E i \in (BUFFER_INTS + 1)..(2 * BUFFER_INTS) : WordAt(pos, i) = 0
    /\ \A i \in 1..(ZeroFrom(WordsAt(pos, 2 * BUFFER_INTS), 1) - 1) :
          WordAt(pos, i) >= 0 /\ WordAt(pos, i) <= MAX_CHR

(* C11: when the 100-integer chunk read at an offset holds no zero code,   *)
(* _read_string keeps its 100 codes and reads the next chunk; the string   *)
(* it returns is every code before the first zero of the stream, and the   *)
(* counter and the file are left just after that zero, for a string of 100 *)
(* or more characters as for a shorter one.                                *)
C11_StringSpanningChunks ==
    [][(AtString /\ SecondChunkTerminated) =>
          LET i == ZeroFrom(WordsAt(pos, 2 * BUFFER_INTS), 1) - 1
              str == [j \in 1..i |-> WordAt(pos, j)]
          IN  /\ pc' # "done"
              /\ pos' = pos + 4 * i + 4
              /\ pc = "title" => (hdr'.title = str /\ n' = pos')
              /\ pc = "var_name" => (hdr'.var_names = Append(hdr.var_names, str) /\ n' = pos')
              /\ pc = "zone_name" => (hdr'.zone_name = str /\ zn' = pos')]_vars

----------------------------------------------------------------------------
\* Notions for C12
\* the descriptor of zone k of a file of parameters p
ExpectedTuple(p, k) ==
    [zone_name |-> ZoneName(k), zone_type |-> 3, data_packing |-> 0, raw_local |-> 0,
     n_misc_neighbor_connections |-> p.nn, nelement |-> p.ne]

(* C12: when the zone records of a file are followed by a 4-byte value     *)
(* other than 299.0, _read_binary_zones returns one descriptor per record, *)
(* in file order, with the counter and the file rewound to the start of    *)
(* that value, which the next 4-byte read returns.                         *)
C12_ZoneDescriptorLoop ==
    pc = "flag" =>
        /\ Len(hdr.ztuples) = hdr.izone
        /\ n = pos /\ zn = n
        /\ pos + 4 <= f.len => WordAt(pos, 1) # ZONE_MARKER
        /\ (WellFormed(fd) /\ ~fd.p.geom) =>
              /\ hdr.ztuples = [k \in 1..fd.p.nz |-> ExpectedTuple(fd.p, k - 1)]
              /\ pos = 4 * (Len(HeaderWords(fd.p)) - 1)
              /\ WordAt(pos, 1) = EOHMARKER

\* the loop has returned the two descriptors of a two-zone file
C12_Witness ==
    /\ pc = "flag" /\ WellFormed(fd) /\ ~fd.p.geom /\ fd.p.nz = 2
    /\ Len(hdr.ztuples) = 2 /\ hdr.ztuples[1] # hdr.ztuples[2]
    /\ pos = n /\ WordAt(pos, 1) = EOHMARKER

----------------------------------------------------------------------------
(* C13: the descriptor loop makes at most 1000 iterations; when it has     *)
(* read 1000 records and the next value is 299.0 again it ends in an       *)
(* error, so neither the loop nor the header decoder ever returns more     *)
(* than 1000 descriptors.                                                  *)
C13_ZoneCap ==
    (pc = "flag" \/ hdr.returned) => Len(hdr.ztuples) <= ZONE_CAP

----------------------------------------------------------------------------
\* Notions for C14
\* the decoder is reading the fields of a zone record
InZoneRecord == pc \in {"zone_name", "zone_record", "zone_raw", "zone_dims", "zone_sep"}

\* the word that follows the zone records was overwritten
FlagOverwritten == fd.mut.kind = "set" /\ fd.mut.at = Len(HeaderWords(fd.p))

(* C14: the value that follows the zone records of a file is read as the   *)
(* section flag: no zone record is read past the last one of the file;     *)
(* when the flag is 299.0 the 68-byte geometry record is consumed and the  *)
(* header returned, when it is 357.0 the header is returned with 4 bytes   *)
(* consumed, and any other value ends the decode with the header not       *)
(* returned.                                                               *)
C14_SectionFlag ==
    /\ (status # "none" /\ WellFormed(fd) /\ fd.p.tl < BUFFER_INTS) =>
          /\ InZoneRecord => hdr.izone < fd.p.nz
          /\ hdr.returned => Len(hdr.ztuples) = fd.p.nz
          /\ (hdr.returned /\ zd.i = 0 /\ pc \in {"zd_marker", "final"}) =>
                (n = 4 * Len(HeaderWords(fd.p)) /\ pos = n)
    /\ (FlagOverwritten /\ fd.mut.val \notin {ZONE_MARKER, EOHMARKER}) =>
          /\ ~hdr.returned
          /\ InZoneRecord => hdr.izone < fd.p.nz

----------------------------------------------------------------------------
\* Notions for C15
\* the call ends in an error at this step with no block of the zone read
\* and no zone handed over
AbortsHere ==
    /\ pc' = "done" /\ status' = "error"
    /\ zd' = zd /\ zones' = zones /\ handed' = handed

\* the offset of the 'has variable sharing' flag of the zone being decoded
VarSharingAt ==
    zd.start + 4 * (2 + hdr.nvars + (IF zd.has_passive = 1 THEN hdr.nvars ELSE 0))

\* the three words of the preamble as they stand in the file
PreambleInFile ==
    /\ WordAt(zd.start, 1) = ZONE_MARKER
    /\ WordAt(VarSharingAt, 1) = 0
    /\ WordAt(VarSharingAt + 4, 1) = -1

(* C15: a zone-data marker other than 299.0, a 'has variable sharing' flag *)
(* other than 0 and a connectivity-sharing index other than -1 each end    *)
(* the decode in an error at the read of that word, before the min/max,    *)
(* nodal or connectivity block of the zone is read; the blocks of a zone   *)
(* are read, and the zone handed over, only with marker 299.0, flag 0 and  *)
(* index -1 in the file.                                                   *)
C15_ZoneDataPreamble ==
    [][/\ (pc = "zd_marker" /\ CurZone.zone_type = 3 /\ Avail >= 4
                /\ WordAt(pos, 1) # ZONE_MARKER) => AbortsHere
       /\ (pc = "zd_var_sharing" /\ Avail >= 4 /\ WordAt(pos, 1) # 0) => AbortsHere
       /\ (pc = "zd_conn_sharing" /\ Avail >= 4 /\ WordAt(pos, 1) # -1) => AbortsHere
       /\ pc \in {"zd_min_max", "zd_nodal", "zd_quads", "commit"} => PreambleInFile
       /\ (handed' # handed /\ handed' # <<>>) => PreambleInFile]_vars

\* zone 0 was handed over and the connectivity-sharing index of zone 1,
\* which is not -1, ended the decode
C15_Witness ==
    /\ pc = "done" /\ status = "error" /\ err = "AssertionError"
    /\ handed = <<0>> /\ zd.i = 1
    /\ zd.steps = <<"marker", "formats", "has_passive", "var_sharing">>
    /\ pos = VarSharingAt + 8
    /\ WordAt(VarSharingAt + 4, 1) # -1

----------------------------------------------------------------------------
\* Notions for C16
\* the per-variable format codes of the zone being decoded, as they stand in
\* the file after its zone-data marker
FormatsInFile == WordsAt(zd.start + 4, hdr.nvars)

AllSame(s) == \A i \in DOMAIN s : s[i] = s[1]

(* C16: a zone whose per-variable format codes are not all identical ends  *)
(* the decode in an error at the read of its nodal block at the latest and *)
(* is not handed over; the connectivity block of a zone is read, and the   *)
(* zone handed over, only when all its format codes in the file are equal. *)
C16_MixedFormatsRejected ==
    [][/\ (pc = "zd_nodal" /\ ~AllSame(FormatsInFile)) =>
            /\ pc' = "done" /\ status' = "error"
            /\ zones' = zones /\ handed' = handed
       /\ pc \in {"zd_quads", "commit"} =>
            /\ zd.data_fmt = FormatsInFile
            /\ AllSame(FormatsInFile)
       /\ (handed' # handed /\ handed' # <<>>) => AllSame(FormatsInFile)]_vars

\* the nodal read of a zone with two different supported format codes raised
\* the mixed-types error
C16_Witness ==
    /\ pc = "done" /\ status = "error" /\ err = "RuntimeError"
    /\ zd.steps # <<>> /\ zd.steps[Len(zd.steps)] = "min_max"
    /\ zd.data_fmt = FormatsInFile
    /\ \A i \in DOMAIN zd.data_fmt : zd.data_fmt[i] \in {1, 2, 3}
    /\ ~AllSame(FormatsInFile)
    /\ zd.i \notin {handed[k] : k \in DOMAIN handed}

----------------------------------------------------------------------------
\* Notions for C17
\* the widths the format codes 1, 2 and 3 stand for
SupportedWidth(code) == IF code = 1 THEN 4 ELSE 8

SupportedCodes(s) == \A i \in DOMAIN s : s[i] \in {1, 2, 3}

(* C17: the nodal block of a zone is read with 4 bytes per value under    *)
(* format code 1 and 8 bytes per value under codes 2 and 3; any other code *)
(* among the format codes of a zone ends the decode in an error at the     *)
(* read of its nodal block, and the connectivity block of a zone is read,  *)
(* and the zone handed over, only when its format codes in the file are    *)
(* all in {1, 2, 3}.                                                       *)
C17_NumericFormatCodes ==
    [][/\ (pc = "zd_nodal" /\ ~SupportedCodes(FormatsInFile)) =>
            /\ pc' = "done" /\ status' = "error"
            /\ zones' = zones /\ handed' = handed
       /\ (pc = "zd_nodal" /\ pc' = "zd_quads") =>
            pos' = pos + hdr.nvars * CurZone.n_misc_neighbor_connections
                             * SupportedWidth(FormatsInFile[1])
       /\ pc \in {"zd_quads", "commit"} => SupportedCodes(FormatsInFile)
       /\ (handed' # handed /\ handed' # <<>>) => SupportedCodes(FormatsInFile)]_vars

----------------------------------------------------------------------------
\* Notions for C18
\* the offset of the nodal block of the zone being decoded: it follows the
\* connectivity-sharing index and 2 * nvars eight-byte min/max values
NodalAt == VarSharingAt + 8 + 16 * hdr.nvars

\* source value q (0-based) of the nodal block, as the words of the file
SourceValue(q) ==
    LET w == FmtWidth(FormatsInFile[1])
    IN  WordsAt(NodalAt + q * w, w \div 4)

\* column i (0-based) of row j (0-based) of the split table of a zone
FieldValue(z, j, i) ==
    IF i < 3 THEN z.xyz[j + 1][i + 1] ELSE z.nodal_results[j + 1][i - 2]

(* C18: once the nodal block of a zone of nvars variables and node_count   *)
(* nodes in one format is read, the table has node_count rows of nvars     *)
(* entries and entry [j][i] is source value i * node_count + j of the      *)
(* block, for every node j and variable i; the zone handed over carries    *)
(* the same entries, and for a well-formed file entry [j][i] is the value  *)
(* the writer gave variable i at node j.                                   *)
C18_VariableMajorTranspose ==
    [][LET nn == CurZone.n_misc_neighbor_connections
           nv == hdr.nvars
       IN  /\ pc \in {"zd_quads", "commit"} =>
                /\ Len(zd.zone_data) = nn
                /\ \A j \in 0..(nn - 1) :
                     /\ Len(zd.zone_data[j + 1]) = nv
                     /\ \A i \in 0..(nv - 1) :
                          /\ zd.zone_data[j + 1][i + 1] = SourceValue(i * nn + j)
                          /\ WellFormed(fd) =>
                               zd.zone_data[j + 1][i + 1][1] = NodalValue(zd.i, i, j)
           /\ (handed' # handed /\ handed' # <<>>) =>
                LET z == zones'[Len(zones')]
                IN  /\ Len(z.xyz) = nn /\ Len(z.nodal_results) = nn
                    /\ \A j \in 0..(nn - 1) : \A i \in 0..(nv - 1) :
                         FieldValue(z, j, i) = SourceValue(i * nn + j)]_vars

\* a well-formed zone of two nodes was handed over: its column 0 is the
\* first two source values, which differ, in order
C18_Witness ==
    /\ status = "ok" /\ WellFormed(fd) /\ fd.p.nn = 2 /\ fd.p.nz = 1
    /\ Len(zones) = 1
    /\ zones[1].xyz[1][1][1] = NodalValue(0, 0, 0)
    /\ zones[1].xyz[2][1][1] = NodalValue(0, 0, 1)
    /\ zones[1].xyz[1][2][1] = NodalValue(0, 1, 0)
    /\ zones[1].xyz[1][1] # zones[1].xyz[2][1]

----------------------------------------------------------------------------
\* Notions for C19
\* the offset of the connectivity block of the zone being decoded
QuadsAt ==
    NodalAt + hdr.nvars * CurZone.n_misc_neighbor_connections
                        * FmtWidth(FormatsInFile[1])

\* the 4 * element_count connectivity integers of the zone in the file
QuadInts == WordsAt(QuadsAt, 4 * CurZone.nelement)

(* C19: when the connectivity block of a zone with element_count >= 0 has  *)
(* been read, the check on it passes and the decode goes on if all its     *)
(* 4 * element_count integers in the file are >= 0, and the decode ends in *)
(* an error with the zone not handed over if one of them is negative.      *)
C19_ConnectivityValidation ==
    [][(pc = "commit" /\ CurZone.nelement >= 0) =>
          IF \A q \in DOMAIN QuadInts : QuadInts[q] >= 0
          THEN /\ status' # "error"
               /\ zd'.i = zd.i + 1
          ELSE /\ pc' = "done" /\ status' = "error"
               /\ zones' = zones /\ handed' = handed]_vars

----------------------------------------------------------------------------
----------------------------------------------------------------------------
(* The three classifications of a zone type, applied to every zone type of *)
(* small magnitude in any order; hdr holds the zone type and the results   *)
(* obtained so far, by the name of the local they are assigned to.         *)

PolicyResults == {"ordered_zone", "fe_poly", "fe_zone"}

InitPolicy ==
    /\ f = NoFile /\ pos = 0 /\ n = 0 /\ zn = 0 /\ zones = <<>>
    /\ pc = "classify" /\ status = "none" /\ err = "none" /\ excl = {}
    /\ calls = 0 /\ zd = Zd0 /\ handed = <<>>
    /\ fd = [p |-> BaseP, mut |-> NoMut, ex |-> NoneArg]
    /\ peer = NoPeer
    /\ \E zt \in (-MaxZoneType)..MaxZoneType :
          hdr = [zone_type |-> zt, res |-> [x \in {} |-> FALSE]]

\* the result named name is assigned value
Classified(name, value) ==
    /\ pc = "classify"
    /\ name \notin DOMAIN hdr.res
    /\ hdr' = [hdr EXCEPT !.res = [x \in DOMAIN hdr.res \cup {name} |->
                                      IF x = name THEN value ELSE hdr.res[x]]]
    /\ UNCHANGED <<f, pos, n, zn, zones, pc, status, err, excl, calls, zd, handed, fd, peer>>

ClassifyOrdered == Classified("ordered_zone", is_ordered_zone(hdr.zone_type))
ClassifyFePoly == Classified("fe_poly", is_fe_poly_zone(hdr.zone_type))
ClassifyFe == Classified("fe_zone", is_fe_zone(hdr.zone_type))

NextPolicy == ClassifyOrdered \/ ClassifyFePoly \/ ClassifyFe

SpecPolicy == InitPolicy /\ [][NextPolicy]_vars

(* C21: for every zone type in 0..7, is_ordered_zone holds exactly for 0,  *)
(* is_fe_zone exactly for 1..7 and is_fe_poly_zone exactly for 6 and 7;    *)
(* exactly one of is_ordered_zone and is_fe_zone holds, and                *)
(* is_fe_poly_zone implies is_fe_zone.                                     *)
C21_ZoneTypeClassification ==
    (pc = "classify" /\ hdr.zone_type \in 0..7) =>
        LET zt == hdr.zone_type
            r == hdr.res
        IN  /\ "ordered_zone" \in DOMAIN r => (r["ordered_zone"] <=> zt = 0)
            /\ "fe_zone" \in DOMAIN r => (r["fe_zone"] <=> (1 <= zt /\ zt <= 7))
            /\ "fe_poly" \in DOMAIN r => (r["fe_poly"] <=> (zt = 6 \/ zt = 7))
            /\ {"ordered_zone", "fe_zone"} \subseteq DOMAIN r =>
                    (r["ordered_zone"] # r["fe_zone"])
            /\ {"fe_poly", "fe_zone"} \subseteq DOMAIN r =>
                    (r["fe_poly"] => r["fe_zone"])

\* a polygonal zone type classified by all three: finite-element and
\* polygonal, not ordered
C21_Witness ==
    /\ pc = "classify" /\ hdr.zone_type = 7
    /\ DOMAIN hdr.res = PolicyResults
    /\ hdr.res["fe_poly"] /\ hdr.res["fe_zone"] /\ ~hdr.res["ordered_zone"]

----------------------------------------------------------------------------
\* Notions for C22
\* the entries of a connectivity table
QuadEntries(quads) == {quads[e][c] : e \in DOMAIN quads, c \in 1..4}

\* the step about to be taken raises one of: a header mismatch (lines
\* 761-791), an unsupported zone layout (lines 660-683, 413-429), variable
\* sharing (lines 395-398), mixed formats (line 548), a negative
\* connectivity index (line 269), trailing data (line 290)
NamedFailure ==
    /\ status # "error" /\ status' = "error"
    /\ \/ pc \in {"magic", "byte_order", "file_type", "nvars"} /\ err' = "AssertionError"
       \/ pc \in {"zone_record", "zone_raw"} /\ err' \in {"AssertionError", "RuntimeError"}
       \/ pc = "zd_conn_sharing" /\ WordAt(pos, 1) = -1
            /\ err' \in {"AssertionError", "RuntimeError"}
       \/ pc = "zd_var_sharing" /\ err' \in {"AssertionError", "NotImplementedError"}
       \/ pc = "zd_nodal" /\ err' = "RuntimeError"
       \/ pc = "commit" /\ err' = "AssertionError"
       \/ pc = "final" /\ err' = "RuntimeError"

\* the numbers the exception of that step carries: the value an assert
\* names after its comma, the argument of a raise; a fixed text and a bare
\* assert carry none
ExcValues ==
    CASE pc = "magic" -> {WordAt(pos, 1), WordAt(pos, 2)}
      [] pc \in {"byte_order", "file_type", "nvars"} -> {WordAt(pos, 1)}
      [] pc = "zone_record" -> {WordAt(pos, 6), WordAt(pos, 7), WordAt(pos, 8)}
      [] pc = "zone_raw" /\ err' = "AssertionError" -> {WordAt(pos, 1), WordAt(pos, 2)}
      [] pc = "zd_conn_sharing" /\ err' = "AssertionError" ->
            {CurZone.zone_type, CurZone.data_packing, CurZone.raw_local,
             CurZone.n_misc_neighbor_connections}
      [] pc = "zd_var_sharing" /\ err' = "NotImplementedError" -> {WordAt(pos, 1)}
      [] pc = "zd_nodal" /\ err' = "RuntimeError" ->
            {zd.data_fmt[i] : i \in DOMAIN zd.data_fmt}
      [] pc = "commit" /\ err' = "AssertionError" ->
            {q \in QuadEntries(zd.quads) : \A r \in QuadEntries(zd.quads) : q <= r}
      [] OTHER -> {}

(* C22: every failure that aborts a decode on a header mismatch, an        *)
(* unsupported zone layout, variable sharing, mixed formats, a negative    *)
(* connectivity index or trailing data carries, among the values of the    *)
(* exception raised, the byte offset at which it was detected: the file    *)
(* offset or the tracked counter before or after the read that found it.   *)
C22_ErrorsCarryOffset ==
    [][NamedFailure => ({pos, pos', n, n'} \cap ExcValues # {})]_vars

----------------------------------------------------------------------------
\* read_tecplot_binary called on one reader object and then called again
\* with the same file and the same exclusion list
RetryFirstCall == calls = 0 /\ Call(ReuseInputs)

RetryCall == calls >= 1 /\ calls < MaxCalls /\ Call({fd})

NextRetry == RetryFirstCall \/ RetryCall \/ Decode

SpecRetry == Init /\ [][NextRetry]_vars

\* Notions for C23
\* the zones the current call has appended to the zone list of the reader
Emitted == SubSeq(zones, Len(zones) - Len(handed) + 1, Len(zones))

\* the outcome of the decode of file d on a freshly constructed reader, for
\* the files that are decoded one after the other on one reader: a
\* well-formed one completes and emits its zones that are not excluded, in
\* file order; a damaged one ends in an error and emits nothing
FreshOutcome(d) ==
    IF WellFormed(d)
    THEN [status |-> "ok",
          emitted |-> [i \in 1..Len(SelectSeq([k \in 1..d.p.nz |-> k - 1], NotExcluded)) |->
                ExpectedZone(d.p, SelectSeq([k \in 1..d.p.nz |-> k - 1], NotExcluded)[i])]]
    ELSE [status |-> "error", emitted |-> <<>>]

(* C23: every decode of a file, whether the first on a freshly constructed *)
(* reader or a later one on a reader that has already decoded or tried to  *)
(* decode, ends with the outcome of the decode on a fresh reader: the same *)
(* success or failure and the same sequence of emitted zones.              *)
C23_DeterministicRedecode ==
    (pc = "done" /\ Len(zones) >= Len(handed)) =>
        [status |-> status, emitted |-> Emitted] = FreshOutcome(fd)

----------------------------------------------------------------------------
(* Two reader objects, each decoding a file of its own, the two calls      *)
(* interleaved at any boundary between two reads. The variables hold the   *)
(* reader that is running and its call; peer holds the other reader, its   *)
(* attributes and the locals of its call.                                  *)

\* the counter of a reader is taken from another reader object
SharedCounter(own, other) == other

\* self.n is an attribute of the instance, set in __init__: the counter a
\* reader resumes with is its own
OwnCounter(own, other) == own

\* read_tecplot_binary is called on the running reader with a file the other
\* reader is not decoding
ConcCall ==
    /\ calls = 0
    /\ Call({d \in ReuseInputs : peer = NoPeer \/ peer.calls = 0 \/ d # peer.fd})

\* the running reader is suspended and the other one runs; a reader that
\* has not run yet is as its construction left it
Switch ==
    LET other == IF peer = NoPeer
                 THEN [f |-> NoFile, pos |-> 0, n |-> 0, zn |-> 0, zones |-> <<>>,
                       pc |-> "idle", status |-> "none", err |-> "none", excl |-> {},
                       calls |-> 0, hdr |-> Hdr0, zd |-> Zd0, handed |-> <<>>,
                       fd |-> [p |-> BaseP, mut |-> NoMut, ex |-> NoneArg]]
                 ELSE peer
    IN  /\ pc # "idle"
        /\ peer' = [f |-> f, pos |-> pos, n |-> n, zn |-> zn, zones |-> zones,
                    pc |-> pc, status |-> status, err |-> err, excl |-> excl,
                    calls |-> calls, hdr |-> hdr, zd |-> zd, handed |-> handed,
                    fd |-> fd]
        /\ f' = other.f /\ pos' = other.pos
        /\ n' = OwnCounter(other.n, n)
        /\ zn' = other.zn /\ zones' = other.zones /\ pc' = other.pc
        /\ status' = other.status /\ err' = other.err /\ excl' = other.excl
        /\ calls' = other.calls /\ hdr' = other.hdr /\ zd' = other.zd
        /\ handed' = other.handed /\ fd' = other.fd

NextConc == ConcCall \/ Switch \/ Decode

SpecConc == Init /\ [][NextConc]_vars

----------------------------------------------------------------------------
----------------------------------------------------------------------------
(* C26: a 'has passive variables' flag other than 0 and 1 ends the decode  *)
(* in an error; the flag 1 makes the decoder consume exactly nvars further *)
(* 4-byte flags and nothing else; the min/max block then starts 4 * nvars  *)
(* bytes later than with the flag 0, and the zone handed over is the zone  *)
(* the writer wrote whatever the passive flags are.                        *)
C26_PassiveFlagsFrame ==
    [][/\ (pc = "zd_has_passive" /\ Avail >= 4) =>
            IF WordAt(pos, 1) \notin {0, 1} THEN AbortsHere
            ELSE /\ pos' = pos + 4 /\ n' = n + 4
                 /\ pc' = IF WordAt(pos, 1) = 1 THEN "zd_is_passive" ELSE "zd_var_sharing"
       /\ (pc = "zd_is_passive" /\ Avail >= 4 * hdr.nvars) =>
            /\ pos' = pos + 4 * hdr.nvars /\ n' = n + 4 * hdr.nvars
            /\ pc' = "zd_var_sharing"
            /\ zd' = [zd EXCEPT !.steps = Append(@, "is_passive")]
       /\ pc = "zd_min_max" =>
            pos = zd.start + 4 * (hdr.nvars + 4)
                  + (IF WordAt(zd.start + 4 * (hdr.nvars + 1), 1) = 1
                     THEN 4 * hdr.nvars ELSE 0)
       /\ (handed' # handed /\ handed' # <<>>
                /\ (WellFormed(fd) \/ fd \in PassiveInputs)) =>
            zones'[Len(zones')] = ExpectedZone(fd.p, zd.i)]_vars

\* a zone whose passive flag of one variable is not 0 was decoded to the
\* zone the writer wrote
C26_Witness ==
    /\ status = "ok" /\ fd \in PassiveInputs
    /\ fd.mut.val # 0
    /\ f.words[fd.mut.at] = fd.mut.val
    /\ zones = <<ExpectedZone(fd.p, 0)>>

----------------------------------------------------------------------------
(* C27: when a decode aborts while reading the data of zone k, or at the   *)
(* check for trailing data, the step that aborts leaves the zone list as   *)
(* it is and does not move the tracked counter back; after the error the   *)
(* list holds, in file order, every zone below k that is not excluded, and *)
(* the counter is not the 0 it was before the call.                        *)
C27_NoRollbackOnAbort ==
    [][(status = "running" /\ status' = "error" /\ hdr.returned) =>
            /\ zones' = zones /\ handed' = handed
            /\ n' >= n /\ n' > 0
            /\ zd'.i = zd.i
            /\ handed' = SelectSeq([k \in 1..zd.i |-> k - 1], NotExcluded)
            /\ Len(zones') = Len(handed')
            /\ \A i \in 1..Len(handed') :
                  zones'[i].zone_name = hdr.ztuples[handed'[i] + 1].zone_name]_vars

\* the decode was stopped inside the data of zone 1; zone 0 is in the list
\* and the counter stands where the failure was found
C27_Witness ==
    /\ pc = "done" /\ status = "error" /\ hdr.returned
    /\ zd.i = 1 /\ zd.steps # <<>>
    /\ handed = <<0>> /\ Len(zones) = 1
    /\ zones[1].zone_name = ZoneName(0)
    /\ n > ZoneDataEnd(fd.p, 0)

----------------------------------------------------------------------------
(* C28: when every zone of a well-formed file has been decoded and the     *)
(* check for trailing data has passed, read_tecplot_binary returns without *)
(* error whatever the exclusion set is, also when it holds the index of    *)
(* every zone of the file and no zone was handed over.                     *)
C28_SuccessForEveryExclusionSet ==
    [][(pc = "finish" /\ WellFormed(fd)) =>
            /\ status' = "ok"
            /\ zones' = zones
            /\ (\A k \in 0..(fd.p.nz - 1) : k \in CallerExcluded) => zones' = <<>>]_vars

----------------------------------------------------------------------------
(* C29: _read_string returns the string, and moves to the offset after its *)
(* terminator, for every zero-terminated string of fewer than 100          *)
(* character codes at the offset of the file, however few bytes the file   *)
(* holds after the terminator: the 400 bytes of a whole chunk need not be  *)
(* there.                                                                  *)
C29_StringNearEndOfFile ==
    [][(AtString /\ calls = 1
            /\ \E i \in 1..BUFFER_INTS :
                  /\ 4 * i <= Avail
                  /\ WordAt(pos, i) = 0
                  /\ \A j \in 1..(i - 1) : WordAt(pos, j) > 0 /\ WordAt(pos, j) <= MAX_CHR) =>
          LET i == CHOOSE i \in 1..BUFFER_INTS :
                      WordAt(pos, i) = 0 /\ \A j \in 1..(i - 1) : WordAt(pos, j) # 0
              str == [j \in 1..(i - 1) |-> WordAt(pos, j)]
          IN  /\ status' # "error"
              /\ pos' = pos + 4 * i
              /\ pc = "title" => hdr'.title = str
              /\ pc = "var_name" => hdr'.var_names = Append(hdr.var_names, str)
              /\ pc = "zone_name" => hdr'.zone_name = str]_vars

----------------------------------------------------------------------------
(* C30: in every zone handed over, every connectivity entry q satisfies    *)
(* 0 <= q < node_count, where node_count is the number of rows of the      *)
(* field values of the zone, the misc_neighbor_connection_count of its     *)
(* descriptor.                                                             *)
C30_ConnectivityInRange ==
    [][(handed' # handed /\ handed' # <<>>) =>
          LET z == zones'[Len(zones')]
          IN  /\ Len(z.xyz) = CurZone.n_misc_neighbor_connections
              /\ \A q \in QuadEntries(z.quads) : 0 <= q /\ q < Len(z.xyz)]_vars

====
